---------------------------- MODULE Spec2Model ----------------------------
(***************************************************************************)
(* IslandMQ sample request/reply pair: the REP server handler loop         *)
(* (sample/server.py) with its command dispatcher and notice argument       *)
(* parser, and the REQ client's send_request (sample/client.py).            *)
(*                                                                         *)
(* Python strings are sequences of one-character strings, so that           *)
(* startswith, split and lower are computed and not assumed.  JSON values   *)
(* are tagged records: [t |-> "str", chars], [t |-> "int", n],              *)
(* [t |-> "null"], [t |-> "list", items], [t |-> "obj", f].                 *)
(***************************************************************************)
EXTENDS Integers, Sequences, FiniteSets, TLC

(* ------------------------------ bounds -------------------------------- *)

\* Longest args list of an enumerated dispatcher input.
MaxArgs == 2
\* send_request calls the client makes in one run.
MaxCalls == 2
\* REP sockets the server may go through (transport errors stop past it).
MaxSrvSockets == 3
\* Frames from peers other than sample/client.py in one run.
MaxForeign == 1
\* Longest token list handed to parse_args on its own.
MaxParseArgs == 3
\* Receive timeouts in one run of run_tests.
MaxTestTimeouts == 1

(* ------------------------- string literals ---------------------------- *)

DashDash == <<"-", "-">>
PContext == DashDash \o <<"c","o","n","t","e","x","t","=">>
PAllowBreak == DashDash \o <<"a","l","l","o","w","-","b","r","e","a","k","=">>
PMaskDuration ==
    DashDash \o <<"m","a","s","k","-","d","u","r","a","t","i","o","n","=">>
POverlayDuration ==
    DashDash \o <<"o","v","e","r","l","a","y","-","d","u","r","a","t","i","o","n","=">>
STrue == <<"t","r","u","e">>
SFalse == <<"f","a","l","s","e">>
SPing == <<"p","i","n","g">>
SNotice == <<"n","o","t","i","c","e">>
STime == <<"t","i","m","e">>
SGetLesson == <<"g","e","t","_","l","e","s","s","o","n">>
SBogus == <<"b","o","g","u","s">>

(* ------------------------- str methods -------------------------------- *)

UpperLetters ==
    <<"A","B","C","D","E","F","G","H","I","J","K","L","M",
      "N","O","P","Q","R","S","T","U","V","W","X","Y","Z">>
LowerLetters ==
    <<"a","b","c","d","e","f","g","h","i","j","k","l","m",
      "n","o","p","q","r","s","t","u","v","w","x","y","z">>

\* str.lower() of one character.
LowerChar(c) ==
    IF \E i \in 1..Len(UpperLetters) : UpperLetters[i] = c
    THEN LowerLetters[CHOOSE i \in 1..Len(UpperLetters) : UpperLetters[i] = c]
    ELSE c

\* str.lower()
Lower(s) == [i \in 1..Len(s) |-> LowerChar(s[i])]

\* str.startswith(prefix)
StartsWith(s, prefix) ==
    /\ Len(s) >= Len(prefix)
    /\ SubSeq(s, 1, Len(prefix)) = prefix

\* str.split('=', 1): the parts around the first '=', or the string alone.
SplitEq(s) ==
    LET eqs == {i \in 1..Len(s) : s[i] = "="}
    IN  IF eqs = {} THEN <<s>>
        ELSE LET i == CHOOSE k \in eqs : \A j \in eqs : k <= j
             IN  <<SubSeq(s, 1, i - 1), SubSeq(s, i + 1, Len(s))>>

(* ------------------------------ float() ------------------------------- *)

Digits == <<"0","1","2","3","4","5","6","7","8","9">>
IsDigit(c) == \E i \in 1..Len(Digits) : Digits[i] = c
DigitVal(c) == (CHOOSE i \in 1..Len(Digits) : Digits[i] = c) - 1

RECURSIVE Pow10(_)
Pow10(n) == IF n = 0 THEN 1 ELSE 10 * Pow10(n - 1)

RECURSIVE DigitsVal(_)
DigitsVal(s) ==
    IF s = <<>> THEN 0
    ELSE 10 * DigitsVal(SubSeq(s, 1, Len(s) - 1)) + DigitVal(s[Len(s)])

RECURSIVE Reduce10(_, _)
\* A decimal fraction num/den (den a power of ten) in lowest decimal terms.
Reduce10(num, den) ==
    IF den > 1 /\ num % 10 = 0 THEN Reduce10(num \div 10, den \div 10)
    ELSE [kind |-> "num", num |-> num, den |-> den]

\* A float written as a decimal literal.
Float(num, den) == Reduce10(num, den)
FloatNaN == [kind |-> "nan", num |-> 0, den |-> 1]
FloatInf(sign) == [kind |-> "inf", num |-> sign, den |-> 1]

ParseFloat_NeverFails(s) == [ok |-> TRUE, val |-> Float(0, 1)]

\* float(s) for the literal forms [sign] digits [. digits], [sign] . digits,
\* [sign] nan and [sign] inf / infinity (any case); every other string of the
\* enumerated inputs raises ValueError ([ok |-> FALSE]).
ParseFloat(s) ==
    LET signed == s # <<>> /\ s[1] \in {"+", "-"}
        sign == IF signed /\ s[1] = "-" THEN -1 ELSE 1
        body == IF signed THEN SubSeq(s, 2, Len(s)) ELSE s
        low == Lower(body)
        dots == {i \in 1..Len(body) : body[i] = "."}
        allDigits(x) == \A i \in 1..Len(x) : IsDigit(x[i])
        bad == [ok |-> FALSE, val |-> FloatNaN]
    IN  IF low = <<"n","a","n">> THEN [ok |-> TRUE, val |-> FloatNaN]
        ELSE IF low \in {<<"i","n","f">>, <<"i","n","f","i","n","i","t","y">>}
        THEN [ok |-> TRUE, val |-> FloatInf(sign)]
        ELSE IF dots = {}
        THEN IF body # <<>> /\ allDigits(body)
             THEN [ok |-> TRUE, val |-> Float(sign * DigitsVal(body), 1)]
             ELSE bad
        ELSE IF Cardinality(dots) = 1
        THEN LET d == CHOOSE i \in dots : TRUE
                 ip == SubSeq(body, 1, d - 1)
                 fp == SubSeq(body, d + 1, Len(body))
             IN  IF Len(ip) + Len(fp) > 0 /\ allDigits(ip) /\ allDigits(fp)
                 THEN [ok |-> TRUE,
                       val |-> Float(sign * (DigitsVal(ip) * Pow10(Len(fp))
                                             + DigitsVal(fp)),
                                     Pow10(Len(fp)))]
                 ELSE bad
        ELSE bad

(* ----------------------------- str(float) ---------------------------- *)

RECURSIVE IntStr(_)
\* The decimal digits of a natural number.
IntStr(n) ==
    IF n < 10 THEN <<Digits[n + 1]>>
    ELSE IntStr(n \div 10) \o <<Digits[(n % 10) + 1]>>

RECURSIVE FracStr(_, _)
\* The digits of fr/den after the point, den a power of ten.
FracStr(fr, den) ==
    IF den = 1 THEN <<>>
    ELSE FracStr(fr \div 10, den \div 10) \o <<Digits[(fr % 10) + 1]>>

\* The text an f-string puts for a float: nan, inf, -inf, or the shortest
\* positional decimal, which has at least one digit after the point (the
\* enumerated values lie in the range repr writes without an exponent).
FormatFloat_IntegerPart(x) ==
    IF x.kind = "nan" THEN <<"n","a","n">>
    ELSE IF x.kind = "inf"
    THEN (IF x.num < 0 THEN <<"-">> ELSE <<>>) \o <<"i","n","f">>
    ELSE LET mag == IF x.num < 0 THEN -x.num ELSE x.num
         IN  (IF x.num < 0 THEN <<"-">> ELSE <<>>)
             \o IntStr(mag \div x.den) \o <<".", "0">>
FormatFloat(x) ==
    IF x.kind = "nan" THEN <<"n","a","n">>
    ELSE IF x.kind = "inf"
    THEN (IF x.num < 0 THEN <<"-">> ELSE <<>>) \o <<"i","n","f">>
    ELSE LET mag == IF x.num < 0 THEN -x.num ELSE x.num
         IN  (IF x.num < 0 THEN <<"-">> ELSE <<>>)
             \o IntStr(mag \div x.den) \o <<".">>
             \o (IF x.den = 1 THEN <<"0">> ELSE FracStr(mag % x.den, x.den))

(* ---------------------------- JSON values ----------------------------- *)

JStr(chars) == [t |-> "str", chars |-> chars]
JInt(n) == [t |-> "int", n |-> n]
JNull == [t |-> "null"]
JList(items) == [t |-> "list", items |-> items]
JObj(f) == [t |-> "obj", f |-> f]

\* Python ==  between a decoded value and a str literal.
EqStr(v, chars) == v.t = "str" /\ v.chars = chars


JAbsent == [t |-> "absent"]
SCommand == <<"c","o","m","m","a","n","d">>

\* Python  sub in s  for two strs.
Contains(s, sub) ==
    \E i \in 1..(Len(s) - Len(sub) + 1) : SubSeq(s, i, i + Len(sub) - 1) = sub

\* A decoded request object with the given members; JAbsent omits the key.
Envelope(version, command, args) ==
    LET keys == {k \in {"version", "command", "args"} :
                    (CASE k = "version" -> version
                       [] k = "command" -> command
                       [] OTHER -> args) # JAbsent}
    IN  JObj([k \in keys |-> CASE k = "version" -> version
                               [] k = "command" -> command
                               [] OTHER -> args])

(* ----------------------- server.py: parse_args ------------------------ *)

\* parts[1].lower() == "true"
AllowBreakOf_CaseSensitive(value) == value = STrue
AllowBreakOf(value) == Lower(value) = STrue

NoticeDefaults ==
    [title |-> <<>>, context |-> <<>>, allow_break |-> TRUE,
     mask_duration |-> Float(30, 10), overlay_duration |-> Float(50, 10)]

ParseArg_FirstContext(st, arg) ==
    LET parts == SplitEq(arg)
    IN  IF StartsWith(arg, PContext)
        THEN IF Len(parts) = 2 /\ st.context = <<>>
             THEN [st EXCEPT !.context = parts[2]] ELSE st
        ELSE IF StartsWith(arg, PAllowBreak)
        THEN IF Len(parts) = 2
             THEN [st EXCEPT !.allow_break = AllowBreakOf(parts[2])]
             ELSE st
        ELSE IF StartsWith(arg, PMaskDuration)
        THEN IF Len(parts) = 2 /\ ParseFloat(parts[2]).ok
             THEN [st EXCEPT !.mask_duration = ParseFloat(parts[2]).val]
             ELSE st
        ELSE IF StartsWith(arg, POverlayDuration)
        THEN IF Len(parts) = 2 /\ ParseFloat(parts[2]).ok
             THEN [st EXCEPT !.overlay_duration = ParseFloat(parts[2]).val]
             ELSE st
        ELSE IF ~StartsWith(arg, DashDash) /\ st.title = <<>>
        THEN [st EXCEPT !.title = arg]
        ELSE st

\* One iteration of the for loop over a str token.
ParseArg(st, arg) ==
    LET parts == SplitEq(arg)
    IN  IF StartsWith(arg, PContext)
        THEN IF Len(parts) = 2 THEN [st EXCEPT !.context = parts[2]] ELSE st
        ELSE IF StartsWith(arg, PAllowBreak)
        THEN IF Len(parts) = 2
             THEN [st EXCEPT !.allow_break = AllowBreakOf(parts[2])]
             ELSE st
        ELSE IF StartsWith(arg, PMaskDuration)
        THEN IF Len(parts) = 2 /\ ParseFloat(parts[2]).ok
             THEN [st EXCEPT !.mask_duration = ParseFloat(parts[2]).val]
             ELSE st
        ELSE IF StartsWith(arg, POverlayDuration)
        THEN IF Len(parts) = 2 /\ ParseFloat(parts[2]).ok
             THEN [st EXCEPT !.overlay_duration = ParseFloat(parts[2]).val]
             ELSE st
        ELSE IF ~StartsWith(arg, DashDash) /\ st.title = <<>>
        THEN [st EXCEPT !.title = arg]
        ELSE st

\* The items a for loop over a decoded value visits; iterating an int or
\* null raises TypeError.
Iterable(v) == v.t \in {"list", "str"}
ItemsOf(v) ==
    IF v.t = "list" THEN v.items
    ELSE [i \in 1..Len(v.chars) |-> JStr(<<v.chars[i]>>)]

RECURSIVE ParseLoop(_, _)
\* The for loop from the state st on; an item that is no str has no
\* startswith and raises AttributeError.
ParseLoop(st, items) ==
    IF items = <<>> THEN [raised |-> FALSE, exc |-> "", params |-> st]
    ELSE IF Head(items).t # "str"
    THEN [raised |-> TRUE, exc |-> "AttributeError", params |-> st]
    ELSE ParseLoop(ParseArg(st, Head(items).chars), Tail(items))

parse_args(args) ==
    IF ~Iterable(args)
    THEN [raised |-> TRUE, exc |-> "TypeError", params |-> NoticeDefaults]
    ELSE ParseLoop(NoticeDefaults, ItemsOf(args))

(* --------------------- server.py: handle_request ---------------------- *)

Response(code, msg) == [status_code |-> code, message |-> msg]
NoResponse == Response(0, "")
Returns(rsp) == [raised |-> FALSE, exc |-> "", response |-> rsp]
Raises(exc) == [raised |-> TRUE, exc |-> exc, response |-> NoResponse]

\* "command" not in request, for the decoded value's type.
CommandNotIn(request) ==
    CASE request.t = "obj" -> "command" \notin DOMAIN request.f
      [] request.t = "list" ->
            \A i \in 1..Len(request.items) : ~EqStr(request.items[i], SCommand)
      [] request.t = "str" -> ~Contains(request.chars, SCommand)
      [] OTHER -> FALSE

\* request.get("args", [])
GetArgs(request) ==
    IF "args" \in DOMAIN request.f THEN request.f["args"] ELSE JList(<<>>)

\* The notice branch (lines 93-109).
HandleNotice(request) ==
    LET parsed == parse_args(GetArgs(request))
    IN  IF parsed.raised THEN Raises(parsed.exc)
        ELSE IF parsed.params.title = <<>>
        THEN Returns(Response(400, "Missing required parameter 'title'"))
        ELSE Returns(Response(IF parsed.params.allow_break THEN 200 ELSE 202,
                              "Notice sent successfully"))

handle_request(request) ==
    IF request.t \notin {"obj", "list", "str"} THEN Raises("TypeError")
    ELSE IF CommandNotIn(request)
    THEN Returns(Response(400, "Missing or invalid 'command' parameter"))
    ELSE IF request.t # "obj" THEN Raises("TypeError")
    ELSE LET command == request.f["command"]
         IN  IF EqStr(command, SPing) THEN Returns(Response(200, "OK"))
             ELSE IF EqStr(command, SNotice) THEN HandleNotice(request)
             ELSE Returns(Response(404, "Command not found"))

(* ----------------------- client.py: send_notice ---------------------- *)

\* str(allow_break)
StrBool(b) == IF b THEN <<"T","r","u","e">> ELSE <<"F","a","l","s","e">>

\* A duration argument of send_notice that is None.
PyNone == [kind |-> "none", num |-> 0, den |-> 1]

\* The args list send_notice builds (lines 249-256).
NoticeArgs(title, context_text, allow_break, mask_duration, overlay_duration) ==
    <<title>>
    \o (IF context_text # <<>> THEN <<PContext \o context_text>> ELSE <<>>)
    \o <<PAllowBreak \o Lower(StrBool(allow_break))>>
    \o (IF mask_duration # PyNone
        THEN <<PMaskDuration \o FormatFloat(mask_duration)>> ELSE <<>>)
    \o (IF overlay_duration # PyNone
        THEN <<POverlayDuration \o FormatFloat(overlay_duration)>> ELSE <<>>)

(* --------------------- dispatcher inputs ------------------------------ *)

Tokens ==
    { <<"T">>, <<"U">>, <<>>, DashDash \o <<"x">>,
      PContext \o <<"a">>, PContext \o <<"b">>,
      PAllowBreak \o STrue, PAllowBreak \o <<"T","r","u","e">>,
      PAllowBreak \o SFalse, PAllowBreak,
      PMaskDuration \o <<"2",".","0">>, PMaskDuration \o <<"a","b","c">>,
      POverlayDuration \o <<"1",".","5">> }

RECURSIVE SeqsUpTo(_, _)
SeqsUpTo(S, n) ==
    IF n = 0 THEN {<<>>}
    ELSE LET shorter == SeqsUpTo(S, n - 1)
         IN  shorter \cup {Append(q, x) : q \in shorter, x \in S}

TokenLists == SeqsUpTo(Tokens, MaxArgs)

\* Tokens for parse_args on its own: the dispatcher's, and more values.
ParseTokens ==
    Tokens \cup
    { PContext \o <<"a","=","b">>,
      PMaskDuration \o <<"n","a","n">>, PMaskDuration,
      POverlayDuration \o <<"-","i","n","f">>,
      POverlayDuration \o <<"x">>, POverlayDuration \o <<"-",".","2","5">> }
ParseTokenLists == SeqsUpTo(ParseTokens, MaxParseArgs)
StrList(toks) == JList([i \in 1..Len(toks) |-> JStr(toks[i])])

ArgsValues ==
    {JAbsent, JNull, JList(<<JInt(1)>>)} \cup {StrList(q) : q \in TokenLists}
VersionValues == {JAbsent, JInt(0), JInt(1), JInt(-1)}
CommandValues ==
    {JAbsent, JInt(5)} \cup
    {JStr(c) : c \in {SPing, SNotice, STime, SGetLesson, SBogus}}

Requests ==
    {Envelope(v, c, a) : v \in VersionValues, c \in CommandValues, a \in ArgsValues}
    \cup {JInt(5), JNull, JList(<<>>), JList(<<JStr(SCommand)>>),
          JStr(SCommand), JStr(SBogus)}

(* ------------------------------ codec --------------------------------- *)

\* A frame on the wire: JSON text carrying val, text that is not JSON, or
\* bytes that are not UTF-8.
json_dumps(v) == [enc |-> "json", val |-> v]
NotJsonText(filler) == [enc |-> "text", val |-> filler]
NotUtf8(filler) == [enc |-> "bytes", val |-> filler]
NoFrame(filler) == [enc |-> "none", val |-> filler]

\* Payloads sample/client.py sends in the modelled runs.
ClientPayloads ==
    { Envelope(JInt(0), JStr(SPing), JAbsent),
      Envelope(JInt(1), JStr(SPing), JAbsent),
      Envelope(JInt(0), JStr(SBogus), JAbsent),
      Envelope(JInt(0), JAbsent, JAbsent),
      Envelope(JInt(0), JStr(SNotice), StrList(<<PContext \o <<"a">> >>)),
      Envelope(JInt(0), JStr(SNotice), StrList(<<<<"T">>, PAllowBreak \o SFalse>>)),
      Envelope(JInt(0), JStr(SNotice), JNull),
      JInt(5) }

\* Frames a peer other than sample/client.py puts on the server's socket.
ForeignFrames == {NotJsonText(JNull), NotUtf8(JNull)}

InternalError == Response(500, "Internal server error")

(* ------------------------------ state --------------------------------- *)

VARIABLES
    dreq,       \* the decoded request handed to handle_request
    dres,       \* what handle_request returned or raised
    dpc,        \* "call" before the call, "done" after it
    socket,     \* server.py global socket: id of the current REP socket
    srvOpen,    \* REP sockets created and not closed
    srvBound,   \* REP sockets bound to tcp://*:5555
    repState,   \* request/reply state of the current REP socket
    spc,        \* server position: recv, send, send500, crashed, exited
    message,    \* the request the loop holds, with its connection
    response,   \* server.py local response
    inbox,      \* requests queued at the bound REP socket
    srvFailed,  \* REP sockets on which recv or send raised ZMQError
    lastOp,     \* the loop's last recv/send attempt
    pendingOn,  \* REP socket the held request was received on (0: none)
    answered,   \* responses sent for the held request
    attempts,   \* send attempts made for the held request
    holder,     \* client.py holder.socket: id of the current REQ socket
    cliOpen,    \* REQ sockets created and not closed
    reqState,   \* request/reply state of holder.socket
    cpc,        \* client position: idle, recv (in recv_string), exited
    cinbox,     \* replies delivered to holder.socket
    calls,      \* send_request calls started
    hist,       \* per call: the socket it went out on and its outcome
    ret,        \* what the last send_request returned
    dropped,    \* replies routed to a closed connection
    foreign,    \* foreign frames so far
    pin,        \* the tokens handed to parse_args
    pout,       \* what parse_args returned or raised for pin
    pser,       \* the args list send_notice builds from pout
    pout2,      \* what parse_args returned or raised for pser
    ppc,        \* start, parsed, serialized, reparsed (off: not run)
    ctxTerminated,  \* server.py context.term() has returned
    tidx,       \* run_tests: number of the test in hand
    tstate,     \* run_tests: call, wait, summary (off: not run)
    failures,   \* run_tests: local failures (test numbers)
    termOpen    \* client.py: REQ sockets open when ctx.term() was called

dvars == <<dreq, dres, dpc>>
srvvars ==
    <<socket, srvOpen, srvBound, repState, spc, message, response, inbox,
      srvFailed, lastOp, pendingOn, answered, attempts>>
clivars == <<holder, cliOpen, reqState, cpc, cinbox, calls, hist, ret, dropped>>
pvars == <<pin, pout, pser, pout2, ppc>>
purevars == <<dvars, pvars>>
tvars == <<tidx, tstate, failures>>
\* State the handler loop and send_request never touch.
outervars == <<purevars, ctxTerminated, tvars, termOpen>>
vars == <<outervars, srvvars, clivars, foreign>>

READY_TO_RECEIVE == "READY_TO_RECEIVE"
READY_TO_SEND == "READY_TO_SEND"
AWAITING_REPLY == "AWAITING_REPLY"

NoMessage == [conn |-> 0, rid |-> 0, wire |-> NoFrame(JNull)]
NoReturn ==
    [call |-> 0, ok |-> FALSE, err |-> <<>>, resp |-> NoResponse,
     why |-> "none", rid |-> 0, frame |-> NoFrame(NoResponse),
     payload |-> JNull, sock |-> 0]

\* State after server.py line 116 and client.py line 311.
SysInit ==
    /\ socket = 1
    /\ srvOpen = {1}
    /\ srvBound = {1}
    /\ repState = READY_TO_RECEIVE
    /\ spc = "recv"
    /\ message = NoMessage
    /\ response = NoResponse
    /\ inbox = <<>>
    /\ srvFailed = {}
    /\ lastOp = [op |-> "none", sock |-> 0, state |-> READY_TO_RECEIVE,
                 ok |-> TRUE, sent |-> NoResponse]
    /\ pendingOn = 0
    /\ answered = 0
    /\ attempts = 0
    /\ holder = 1
    /\ cliOpen = {1}
    /\ reqState = READY_TO_SEND
    /\ cpc = "idle"
    /\ cinbox = <<>>
    /\ calls = 0
    /\ hist = <<>>
    /\ ret = NoReturn
    /\ dropped = 0
    /\ foreign = 0
    /\ ctxTerminated = FALSE
    /\ termOpen = {}

(* ----------------------- server.py: sockets --------------------------- *)

\* create_socket(): close the current socket, make a new one, bind it.  A
\* failed bind raises out of the except clause that called it and ends the
\* loop; requests queued in the closed socket are lost (keep = FALSE)
\* unless they had not left the sender yet.
create_socket(bindOk, keep) ==
    /\ srvOpen' = (srvOpen \ {socket}) \cup {socket + 1}
    /\ socket' = socket + 1
    /\ srvBound' = IF bindOk THEN {socket + 1} ELSE {}
    /\ repState' = READY_TO_RECEIVE
    /\ inbox' = IF keep THEN inbox ELSE <<>>
    /\ spc' = IF bindOk THEN "recv" ELSE "crashed"

\* The except clause logging the error and going on with the same socket.
OnZMQError_KeepSocket ==
    /\ srvFailed' = srvFailed \cup {socket}
    /\ spc' = "recv"
    /\ UNCHANGED <<socket, srvOpen, srvBound, repState, inbox>>

\* except zmq.ZMQError (lines 140-147): both branches recreate the socket.
OnZMQError ==
    /\ srvFailed' = srvFailed \cup {socket}
    /\ \E bindOk \in BOOLEAN, keep \in BOOLEAN : create_socket(bindOk, keep)

\* The inner except clause logging the failed send without create_socket().
OnSendErr_LogOnly ==
    /\ srvFailed' = srvFailed \cup {socket}
    /\ spc' = "recv"
    /\ UNCHANGED <<socket, srvOpen, srvBound, repState, inbox>>

\* except zmq.ZMQError as send_err (lines 156-158).
OnSendErr ==
    /\ srvFailed' = srvFailed \cup {socket}
    /\ \E bindOk \in BOOLEAN, keep \in BOOLEAN : create_socket(bindOk, keep)

Attempt(op, ok, sent) ==
    [op |-> op, sock |-> socket, state |-> repState, ok |-> ok, sent |-> sent]

(* ----------------------- server.py: handler loop ---------------------- *)

\* Lines 121-131 on a received frame: recv_string's UTF-8 decode, then
\* json.loads and handle_request, JSONDecodeError turned into 400.
Processing(w) ==
    IF w.enc = "bytes" THEN Raises("UnicodeDecodeError")
    ELSE IF w.enc = "text" THEN Returns(Response(400, "Invalid JSON"))
    ELSE handle_request(w.val)

\* The loop recreating the socket on every failure, local ones included.
Received_RecreateOnAnyError(m) ==
    /\ lastOp' = Attempt("recv", TRUE, NoResponse)
    /\ message' = m
    /\ pendingOn' = socket
    /\ answered' = 0
    /\ attempts' = 0
    /\ LET r == Processing(m.wire)
       IN  IF r.raised \/ r.response.status_code >= 400
           THEN /\ create_socket(TRUE, TRUE)
                /\ UNCHANGED <<response, srvFailed>>
           ELSE /\ spc' = "send"
                /\ response' = r.response
                /\ repState' = READY_TO_SEND
                /\ UNCHANGED <<socket, srvOpen, srvBound, srvFailed>>
    /\ UNCHANGED <<clivars, outervars>>

\* recv_string returned m: the try body up to the send, or the jump to
\* except Exception.
Received(m) ==
    /\ lastOp' = Attempt("recv", TRUE, NoResponse)
    /\ repState' = READY_TO_SEND
    /\ message' = m
    /\ pendingOn' = socket
    /\ answered' = 0
    /\ attempts' = 0
    /\ LET r == Processing(m.wire)
       IN  IF r.raised
           THEN spc' = "send500" /\ UNCHANGED response
           ELSE spc' = "send" /\ response' = r.response
    /\ UNCHANGED <<socket, srvOpen, srvBound, srvFailed, clivars, outervars>>

\* socket.recv_string() returns the next queued request.
ServerRecv ==
    /\ spc = "recv"
    /\ repState = READY_TO_RECEIVE
    /\ socket \in srvBound
    /\ inbox # <<>>
    /\ Received(Head(inbox))
    /\ inbox' = Tail(inbox)
    /\ UNCHANGED foreign

\* socket.recv_string() returns a frame of another peer.
ServerRecvForeign(w) ==
    /\ spc = "recv"
    /\ repState = READY_TO_RECEIVE
    /\ socket \in srvBound
    /\ foreign < MaxForeign
    /\ Received([conn |-> 0, rid |-> 0, wire |-> w])
    /\ foreign' = foreign + 1
    /\ UNCHANGED inbox

\* socket.recv_string() raises ZMQError: EFSM when the socket is not ready
\* to receive, otherwise a transport error.
ServerRecvError ==
    /\ spc = "recv"
    /\ repState # READY_TO_RECEIVE \/ socket < MaxSrvSockets
    /\ lastOp' = Attempt("recv", FALSE, NoResponse)
    /\ OnZMQError
    /\ UNCHANGED <<message, response, pendingOn, answered, attempts,
                   clivars, outervars, foreign>>

\* The reply goes back on the connection the request came in on; a reply
\* for a connection that is gone is dropped.
Deliver(conn, rid, rsp) ==
    IF conn # 0 /\ conn = holder /\ conn \in cliOpen
    THEN /\ cinbox' = Append(cinbox, [rid |-> rid, wire |-> json_dumps(rsp)])
         /\ UNCHANGED dropped
    ELSE /\ dropped' = IF conn # 0 THEN dropped + 1 ELSE dropped
         /\ UNCHANGED cinbox

\* A send_string that succeeds.
Sent(rsp) ==
    /\ lastOp' = Attempt("send", TRUE, rsp)
    /\ repState' = READY_TO_RECEIVE
    /\ answered' = answered + 1
    /\ attempts' = attempts + 1
    /\ Deliver(message.conn, message.rid, rsp)
    /\ spc' = "recv"
    /\ UNCHANGED <<socket, srvOpen, srvBound, srvFailed, inbox, message,
                   response, pendingOn>>
    /\ UNCHANGED <<holder, cliOpen, reqState, cpc, calls, hist, ret>>
    /\ UNCHANGED <<outervars, foreign>>

\* A send_string that raises ZMQError.
SendFails(rsp) ==
    /\ repState # READY_TO_SEND \/ socket < MaxSrvSockets
    /\ lastOp' = Attempt("send", FALSE, rsp)
    /\ attempts' = attempts + 1
    /\ UNCHANGED <<message, response, pendingOn, answered, clivars, outervars,
                   foreign>>

\* Lines 137-139.
ServerSendOk ==
    /\ spc = "send"
    /\ repState = READY_TO_SEND
    /\ Sent(response)

\* Line 138 raising, handled at lines 140-147.
ServerSendError ==
    /\ spc = "send"
    /\ SendFails(response)
    /\ OnZMQError

\* The except clause logging the exception without sending anything.
ServerSend500Ok_Swallow ==
    /\ spc = "send500"
    /\ spc' = "recv"
    /\ UNCHANGED <<socket, srvOpen, srvBound, repState, message, response,
                   inbox, srvFailed, lastOp, pendingOn, answered, attempts,
                   clivars, outervars, foreign>>

\* Lines 148-155: the 500 reply is sent.
ServerSend500Ok ==
    /\ spc = "send500"
    /\ repState = READY_TO_SEND
    /\ Sent(InternalError)

\* Line 155 raising, handled at lines 156-158.
ServerSend500Error ==
    /\ spc = "send500"
    /\ SendFails(InternalError)
    /\ OnSendErr

(* ----------------------- client.py: send_request ---------------------- *)

\* The handler returning the error and leaving holder.socket as it is.
Rebuild_Skip == UNCHANGED <<holder, cliOpen, reqState, cinbox>>

\* The handler replacing holder.socket without closing the old socket.
Rebuild_LeakOld ==
    /\ cliOpen' = cliOpen \cup {holder + 1}
    /\ holder' = holder + 1
    /\ reqState' = READY_TO_SEND
    /\ cinbox' = <<>>

\* The handler going on with the same socket, its state reset.
Rebuild_ReuseSocket ==
    /\ reqState' = READY_TO_SEND
    /\ UNCHANGED <<holder, cliOpen, cinbox>>

\* socket.close(); holder.socket = create_socket(context)  (lines 65-66)
Rebuild ==
    /\ cliOpen' = (cliOpen \ {holder}) \cup {holder + 1}
    /\ holder' = holder + 1
    /\ reqState' = READY_TO_SEND
    /\ cinbox' = <<>>

Return(ok, err, resp, why, rid, frame, payload) ==
    [call |-> Len(hist'), ok |-> ok, err |-> err, resp |-> resp, why |-> why,
     rid |-> rid, frame |-> frame, payload |-> payload, sock |-> holder]

Outcome(o) == [hist EXCEPT ![Len(hist)] = [@ EXCEPT !.outcome = o]]

\* Lines 54-59: send_string; on a REQ socket still awaiting a reply it
\* raises EFSM, handled at lines 63-67.
SendRequest(p) ==
    /\ cpc = "idle"
    /\ calls' = calls + 1
    /\ IF reqState # READY_TO_SEND
       THEN /\ hist' = Append(hist, [sock |-> holder, outcome |-> "zmq_error"])
            /\ Rebuild
            /\ ret' = Return(FALSE,
                             <<"zmq_error: ", "Operation cannot be accomplished in current state">>,
                             NoResponse, "efsm", 0, NoFrame(NoResponse), p)
            /\ UNCHANGED <<cpc, inbox>>
       ELSE /\ hist' = Append(hist, [sock |-> holder, outcome |-> "pending"])
            /\ inbox' = IF srvBound # {}
                        THEN Append(inbox, [conn |-> holder, rid |-> calls + 1,
                                            wire |-> json_dumps(p)])
                        ELSE inbox
            /\ reqState' = AWAITING_REPLY
            /\ cpc' = "recv"
            /\ ret' = [NoReturn EXCEPT !.payload = p, !.call = calls + 1]
            /\ UNCHANGED <<holder, cliOpen, cinbox>>
    /\ UNCHANGED <<socket, srvOpen, srvBound, repState, spc, message, response,
                   srvFailed, lastOp, pendingOn, answered, attempts>>
    /\ UNCHANGED <<dropped, purevars, ctxTerminated, termOpen, foreign>>

\* A send_request call of a caller other than run_tests.
ClientSend(p) ==
    /\ calls < MaxCalls
    /\ SendRequest(p)
    /\ UNCHANGED tvars

\* The JSON error handled like a transport error: close and reconnect.
OnJSONDecodeError_Rebuild ==
    /\ cliOpen' = (cliOpen \ {holder}) \cup {holder + 1}
    /\ holder' = holder + 1
    /\ reqState' = READY_TO_SEND
    /\ cinbox' = <<>>

\* except json.JSONDecodeError (lines 68-70): the socket is left alone.
OnJSONDecodeError ==
    /\ reqState' = READY_TO_SEND
    /\ cinbox' = Tail(cinbox)
    /\ UNCHANGED <<holder, cliOpen>>

\* Lines 60-62 and 68-72: a reply arrives within RCVTIMEO.  The text
\* recv_string returns is what sample/server.py sent or, when the peer
\* bound to the address is not sample/server.py, text that is not JSON.
ClientRecv(fromServer) ==
    /\ cpc = "recv"
    /\ cinbox # <<>>
    /\ fromServer \/ foreign < MaxForeign
    /\ foreign' = IF fromServer THEN foreign ELSE foreign + 1
    /\ LET frame == IF fromServer THEN Head(cinbox).wire
                    ELSE NotJsonText(NoResponse)
       IN  IF frame.enc = "json"
           THEN /\ reqState' = READY_TO_SEND
                /\ cinbox' = Tail(cinbox)
                /\ UNCHANGED <<holder, cliOpen>>
                /\ hist' = Outcome("ok")
                /\ ret' = Return(TRUE, <<>>, frame.val, "reply",
                                 Head(cinbox).rid, frame, ret.payload)
           ELSE /\ OnJSONDecodeError
                /\ hist' = Outcome("json_error")
                /\ ret' = Return(FALSE, <<"json_error: ", "Expecting value">>,
                                 NoResponse, "reply", Head(cinbox).rid, frame,
                                 ret.payload)
    /\ cpc' = "idle"
    /\ UNCHANGED <<calls, dropped, srvvars, outervars>>

\* Line 60 raising zmq.Again after RCVTIMEO = 5000 ms, handled at 63-67.
ClientTimeout ==
    /\ cpc = "recv"
    /\ cinbox = <<>>
    /\ Rebuild
    /\ hist' = Outcome("timeout")
    /\ ret' = Return(FALSE, <<"zmq_error: ", "Resource temporarily unavailable">>,
                     NoResponse, "deadline", 0, NoFrame(NoResponse), ret.payload)
    /\ cpc' = "idle"
    /\ UNCHANGED <<calls, dropped, srvvars, outervars, foreign>>

NoParse == [raised |-> FALSE, exc |-> "", params |-> NoticeDefaults]

\* The parse_args harness not running.
ParseOff ==
    /\ pin = <<>>
    /\ pout = NoParse
    /\ pser = <<>>
    /\ pout2 = NoParse
    /\ ppc = "off"

\* The handle_request harness not running.
DispatchOff ==
    /\ dreq = JNull
    /\ dres = Raises("")
    /\ dpc = "off"

\* run_tests not running.
TestsOff ==
    /\ tidx = 0
    /\ tstate = "off"
    /\ failures = <<>>

Init ==
    /\ SysInit
    /\ DispatchOff
    /\ ParseOff
    /\ TestsOff

DInit ==
    /\ SysInit
    /\ dreq \in Requests
    /\ dres = Raises("")
    /\ dpc = "call"
    /\ ParseOff
    /\ TestsOff

PInit ==
    /\ SysInit
    /\ DispatchOff
    /\ pin \in ParseTokenLists
    /\ pout = NoParse
    /\ pser = <<>>
    /\ pout2 = NoParse
    /\ ppc = "start"
    /\ TestsOff

\* parse_args(args) on the token list   (server.py line 95)
Parse ==
    /\ ppc = "start"
    /\ pout' = parse_args(StrList(pin))
    /\ ppc' = "parsed"
    /\ UNCHANGED <<pin, pser, pout2, dvars, ctxTerminated, tvars, termOpen,
                   srvvars, clivars,
                   foreign>>

\* send_notice called with the resolved parameters builds its args list.
Reserialize ==
    /\ ppc = "parsed"
    /\ ~pout.raised
    /\ pser' = NoticeArgs(pout.params.title, pout.params.context,
                          pout.params.allow_break, pout.params.mask_duration,
                          pout.params.overlay_duration)
    /\ ppc' = "serialized"
    /\ UNCHANGED <<pin, pout, pout2, dvars, ctxTerminated, tvars, termOpen,
                   srvvars, clivars,
                   foreign>>

\* parse_args on the list send_notice built.
Reparse ==
    /\ ppc = "serialized"
    /\ pout2' = parse_args(StrList(pser))
    /\ ppc' = "reparsed"
    /\ UNCHANGED <<pin, pout, pser, dvars, ctxTerminated, tvars, termOpen,
                   srvvars, clivars,
                   foreign>>

SpecParse == PInit /\ [][Parse \/ Reserialize \/ Reparse]_vars

\* response = handle_request(request)   (server.py line 126)
Dispatch ==
    /\ dpc = "call"
    /\ dres' = handle_request(dreq)
    /\ dpc' = "done"
    /\ UNCHANGED <<dreq, pvars, ctxTerminated, tvars, termOpen, srvvars,
                   clivars,
                   foreign>>

SpecDispatch == DInit /\ [][Dispatch]_vars

Next ==
    \/ ServerRecv
    \/ \E w \in ForeignFrames : ServerRecvForeign(w)
    \/ ServerRecvError
    \/ ServerSendOk
    \/ ServerSendError
    \/ ServerSend500Ok
    \/ ServerSend500Error
    \/ \E p \in ClientPayloads : ClientSend(p)
    \/ \E fromServer \in BOOLEAN : ClientRecv(fromServer)
    \/ ClientTimeout

Spec == Init /\ [][Next]_vars

(* ------------------------ client.py: run_tests ------------------------ *)

SNonexistent ==
    <<"n","o","n","e","x","i","s","t","e","n","t","c","o","m","m","a","n","d">>

\* The request of test i (lines 91-206); the titles, contexts and the
\* message text are shortened to one ASCII character each.
TestPayload(i) ==
    CASE i = 1 -> Envelope(JInt(0), JStr(SPing), JAbsent)
      [] i = 2 -> Envelope(JInt(0), JStr(SNonexistent), JAbsent)
      [] i = 3 -> JObj([k \in {"version", "message"} |->
                          IF k = "version" THEN JInt(0) ELSE JStr(<<"m">>)])
      [] i = 4 -> Envelope(JInt(0), JStr(SNotice),
                           StrList(<<<<"T">>, PContext \o <<"a">>,
                                     PAllowBreak \o STrue>>))
      [] i = 5 -> Envelope(JInt(0), JStr(SNotice), StrList(<<<<"U">>>>))
      [] i = 6 -> Envelope(JInt(0), JStr(SNotice),
                           StrList(<<<<"T">>, PAllowBreak \o SFalse>>))
      [] i = 7 -> Envelope(JInt(0), JStr(SNotice),
                           StrList(<<PContext \o <<"b">>>>))
      [] i = 8 -> Envelope(JInt(0), JStr(SNotice),
                           StrList(<<<<"V">>, PContext \o <<"a">>,
                                     PMaskDuration \o <<"2",".","0">>>>))
      [] i = 9 -> Envelope(JInt(0), JStr(SNotice),
                           StrList(<<<<"V">>, PContext \o <<"b">>,
                                     PMaskDuration \o <<"1",".","5">>,
                                     POverlayDuration \o <<"2","0",".","0">>>>))
      [] i = 10 -> Envelope(JInt(0), JStr(SNotice), JAbsent)
      [] i = 11 -> Envelope(JInt(1), JStr(SPing), JAbsent)
      [] i = 12 -> Envelope(JInt(0), JStr(STime), JAbsent)
      [] OTHER -> Envelope(JInt(0), JStr(SGetLesson), JAbsent)

NumTests == 13
\* Tests whose check is  ok and resp.get("success"); the others check
\* ok and not resp.get("success").
TestExpectSuccess == {1, 4, 5, 6, 8, 9, 12, 13}

\* The truth value of resp.get("success"): None when the key is missing.
GetSuccess(resp) ==
    IF "success" \in DOMAIN resp THEN resp["success"] = TRUE ELSE FALSE

\* The condition under which test i appends to failures.
TestFails(i, ok, resp) ==
    IF i \in TestExpectSuccess
    THEN ~(ok /\ GetSuccess(resp))
    ELSE ~(ok /\ ~GetSuccess(resp))

\* ok, resp = send_request(context, holder, <request of test tidx>)
TestCall ==
    /\ tstate = "call"
    /\ SendRequest(TestPayload(tidx))
    /\ tstate' = "wait"
    /\ UNCHANGED <<tidx, failures>>

\* recv_string raising zmq.Again inside a test's send_request.
TestTimeout ==
    /\ Cardinality({i \in 1..Len(hist) : hist[i].outcome = "timeout"})
           < MaxTestTimeouts
    /\ ClientTimeout

\* The if after the call, then the next test or the summary.
TestCheck ==
    /\ tstate = "wait"
    /\ cpc = "idle"
    /\ failures' = IF TestFails(tidx, ret.ok, ret.resp)
                   THEN Append(failures, tidx) ELSE failures
    /\ tidx' = IF tidx < NumTests THEN tidx + 1 ELSE tidx
    /\ tstate' = IF tidx < NumTests THEN "call" ELSE "summary"
    /\ UNCHANGED <<purevars, ctxTerminated, termOpen, srvvars, clivars,
                   foreign>>

TInit ==
    /\ SysInit
    /\ DispatchOff
    /\ ParseOff
    /\ tidx = 1
    /\ tstate = "call"
    /\ failures = <<>>

TestNext ==
    \/ TestCall
    \/ TestTimeout
    \/ TestCheck
    \/ ClientRecv(TRUE)
    \/ ServerRecv
    \/ ServerSendOk

SpecTests == TInit /\ [][TestNext]_vars

(* ------------- client.py: one-shot paths and the main block ----------- *)

\* Requests of send_notice (lines 256-260) and of the time and lesson
\* commands (lines 322-333), each sent by one send_request call.
OneShotPayloads ==
    { Envelope(JInt(0), JStr(SNotice),
               StrList(NoticeArgs(<<"T">>, <<>>, TRUE, PyNone, PyNone))),
      Envelope(JInt(0), JStr(STime), JAbsent),
      Envelope(JInt(0), JStr(SGetLesson), JAbsent) }

\* send_request inside the try of send_notice or run_request_with_socket.
OneShotCall(p) ==
    /\ tstate = "off"
    /\ calls = 0
    /\ SendRequest(p)
    /\ UNCHANGED tvars

\* finally: holder.socket.close(); ctx.term()  (lines 263-265, 283-286,
\* 317-319), reached when the try body has returned or called sys.exit.
Finally ==
    /\ cpc = "idle"
    /\ tstate = "summary" \/ (tstate = "off" /\ calls = 1)
    /\ cliOpen' = cliOpen \ {holder}
    /\ termOpen' = cliOpen \ {holder}
    /\ cinbox' = <<>>
    /\ cpc' = "exited"
    /\ UNCHANGED <<holder, reqState, calls, hist, ret, dropped, srvvars,
                   purevars, ctxTerminated, tvars, foreign>>

\* A fresh context and holder, in the main block's test branch (lines
\* 310-311) or in a one-shot function (lines 244-245, 281-282).
ExitInit ==
    /\ SysInit
    /\ DispatchOff
    /\ ParseOff
    /\ failures = <<>>
    /\ \/ tidx = 1 /\ tstate = "call"
       \/ tidx = 0 /\ tstate = "off"

ExitNext ==
    \/ \E p \in OneShotPayloads : OneShotCall(p)
    \/ TestCall
    \/ TestTimeout
    \/ TestCheck
    \/ \E fromServer \in BOOLEAN : ClientRecv(fromServer)
    \/ ServerRecv
    \/ ServerSendOk
    \/ Finally

SpecExit == ExitInit /\ [][ExitNext]_vars

(* ------------------- server.py: cleanup and signals ------------------- *)

Running == {"recv", "send", "send500"}

\* cleanup(): socket.close(), context.term(), sys.exit(0).  term() returns
\* once no socket of the context is open.
cleanup ==
    /\ srvOpen' = srvOpen \ {socket}
    /\ srvBound' = srvBound \ {socket}
    /\ inbox' = <<>>
    /\ ctxTerminated' = (srvOpen \ {socket} = {})
    /\ spc' = "exited"

\* SIGINT or SIGTERM while the loop is in recv_string, in the handling of a
\* request or in a send: cleanup runs and SystemExit, which neither except
\* clause catches, ends the process.
Signal ==
    /\ spc \in Running
    /\ cleanup
    /\ UNCHANGED <<socket, repState, message, response, srvFailed, lastOp,
                   pendingOn, answered, attempts, clivars, purevars, tvars,
                   termOpen, foreign>>

\* SIGINT or SIGTERM inside the create_socket() an except clause called
\* after a ZMQError: after the old socket's close (line 21), or after the
\* new socket was made (line 24); cleanup closes whichever the global
\* names.
SignalInCreateSocket(afterNew) ==
    /\ spc \in Running
    /\ socket < MaxSrvSockets
    /\ srvFailed' = srvFailed \cup {socket}
    /\ lastOp' = Attempt(IF spc = "recv" THEN "recv" ELSE "send", FALSE,
                         CASE spc = "recv" -> NoResponse
                           [] spc = "send" -> response
                           [] OTHER -> InternalError)
    /\ attempts' = IF spc = "recv" THEN attempts ELSE attempts + 1
    /\ socket' = IF afterNew THEN socket + 1 ELSE socket
    /\ repState' = IF afterNew THEN READY_TO_RECEIVE ELSE repState
    /\ srvOpen' = srvOpen \ {socket}
    /\ srvBound' = {}
    /\ inbox' = <<>>
    /\ ctxTerminated' = (srvOpen \ {socket} = {})
    /\ spc' = "exited"
    /\ UNCHANGED <<message, response, pendingOn, answered, clivars, purevars,
                   tvars, termOpen, foreign>>

LifeNext ==
    \/ Next
    \/ Signal
    \/ \E afterNew \in BOOLEAN : SignalInCreateSocket(afterNew)

SpecLife == Init /\ [][LifeNext]_vars

(* ============================== claims =============================== *)

KnownCommands == {SPing, SNotice, STime, SGetLesson}
Is4xx(code) == code \in 400..499

\* The sent-for-this-request response the loop owes: handle_request's, or
\* the 500 envelope when handling raises.
AnswerTo(w) ==
    LET r == Processing(w)
    IN  IF r.raised THEN InternalError ELSE r.response
ServerAnswer(p) == AnswerTo(json_dumps(p))

\* args absent or a list of strs.
WellTypedArgs(f) ==
    "args" \in DOMAIN f =>
        /\ f["args"].t = "list"
        /\ \A i \in 1..Len(f["args"].items) : f["args"].items[i].t = "str"

\* The tokens of a well-typed args member.
ArgTokens(f) ==
    IF "args" \in DOMAIN f
    THEN [i \in 1..Len(f["args"].items) |-> f["args"].items[i].chars]
    ELSE <<>>

\* {version: integer, command: string, args?: sequence of string}
ValidEnvelope(v) ==
    /\ v.t = "obj"
    /\ "version" \in DOMAIN v.f /\ v.f["version"].t = "int"
    /\ "command" \in DOMAIN v.f /\ v.f["command"].t = "str"
    /\ WellTypedArgs(v.f)

\* A payload the server fails locally: not JSON, no command, a notice
\* without a title, a command that is not known.
LocalFailure(w) ==
    \/ w.enc = "text"
    \/ /\ w.enc = "json"
       /\ w.val.t = "obj"
       /\ \/ "command" \notin DOMAIN w.val.f
          \/ /\ w.val.f["command"].t = "str"
             /\ w.val.f["command"].chars \notin KnownCommands
          \/ /\ EqStr(w.val.f["command"], SNotice)
             /\ WellTypedArgs(w.val.f)
             /\ \A i \in 1..Len(ArgTokens(w.val.f)) :
                    \/ StartsWith(ArgTokens(w.val.f)[i], DashDash)
                    \/ ArgTokens(w.val.f)[i] = <<>>

\* C1: every recv is attempted on a socket ready to receive and every send
\* on a socket ready to send; the loop is back at recv for a socket only
\* after exactly one response was sent for the request it received on that
\* socket (otherwise the socket has been replaced), and while it holds an
\* unanswered request it is at a send, not at recv.
C1_StrictAlternation ==
    /\ lastOp.op = "recv" => lastOp.state = READY_TO_RECEIVE
    /\ lastOp.op = "send" => lastOp.state = READY_TO_SEND
    /\ answered <= 1
    /\ spc = "recv" /\ pendingOn = socket => answered = 1
    /\ spc \in {"send", "send500"} =>
          pendingOn = socket /\ answered = 0 /\ repState = READY_TO_SEND
    /\ lastOp.op = "send" /\ lastOp.ok =>
          lastOp.sent = AnswerTo(message.wire)

\* C1 witness: the 500 envelope went out and the loop is back at recv on
\* the same socket.
C1_Witness ==
    /\ spc = "recv"
    /\ pendingOn = socket
    /\ answered = 1
    /\ lastOp.op = "send"
    /\ lastOp.sent = InternalError

\* C2: a socket on which recv or send raised ZMQError is closed and is
\* never the current socket again; at most one REP socket is open; the loop
\* is at recv only with an open, bound, never-failed socket.
C2_RecreateOnTransportError ==
    /\ Cardinality(srvOpen) <= 1
    /\ srvFailed \cap srvOpen = {}
    /\ socket \notin srvFailed
    /\ lastOp.ok => lastOp.sock \notin srvFailed
    /\ lastOp.op # "none" /\ ~lastOp.ok =>
          /\ lastOp.sock \in srvFailed
          /\ socket # lastOp.sock
          /\ socket \in srvOpen
    /\ spc = "recv" => socket \in srvOpen /\ socket \in srvBound

\* C2 witness: a send failed and the loop is at recv with a new bound socket.
C2_Witness ==
    /\ lastOp.op = "send"
    /\ ~lastOp.ok
    /\ spc = "recv"
    /\ socket \in srvBound

\* C3: a request that fails locally takes the loop to the send of a 4xx
\* response on the socket it came in on; once that send has succeeded the
\* same socket is still the current, open one and is ready to receive.
C3_LocalFailureKeepsSocket ==
    /\ lastOp.op = "recv" /\ lastOp.ok /\ LocalFailure(message.wire) =>
          /\ spc = "send"
          /\ Is4xx(response.status_code)
          /\ socket = lastOp.sock
          /\ socket \in srvOpen
          /\ socket \notin srvFailed
    /\ lastOp.op = "send" /\ lastOp.ok /\ LocalFailure(message.wire) =>
          /\ Is4xx(lastOp.sent.status_code)
          /\ socket = lastOp.sock
          /\ socket = pendingOn
          /\ socket \in srvOpen
          /\ repState = READY_TO_RECEIVE
          /\ spc = "recv"

\* C3 witness: the 400 for a payload that is not JSON has been sent.
C3_Witness ==
    /\ lastOp.op = "send"
    /\ lastOp.ok
    /\ message.wire.enc = "text"
    /\ lastOp.sent = Response(400, "Invalid JSON")

\* C4: when handling the received request raises, the loop goes to the send
\* of the 500 envelope; that send is the only send attempted for the
\* request; if it fails the socket is closed and replaced, otherwise the
\* same socket is kept, ready to receive.
C4_InternalErrorReply ==
    /\ lastOp.op = "recv" /\ lastOp.ok /\ Processing(message.wire).raised =>
          spc = "send500" /\ attempts = 0
    /\ spc = "send500" =>
          Processing(message.wire).raised /\ attempts = 0 /\ pendingOn = socket
    /\ lastOp.op = "send" /\ Processing(message.wire).raised =>
          /\ lastOp.sent = InternalError
          /\ attempts = 1
          /\ lastOp.sock = pendingOn
          /\ IF lastOp.ok
             THEN /\ socket = lastOp.sock
                  /\ socket \in srvOpen
                  /\ repState = READY_TO_RECEIVE
                  /\ spc = "recv"
                  /\ answered = 1
             ELSE /\ socket # lastOp.sock
                  /\ lastOp.sock \notin srvOpen
                  /\ socket \in srvOpen
                  /\ answered = 0

\* C4 witness: the send of the 500 envelope failed and a new socket is bound.
C4_Witness ==
    /\ lastOp.op = "send"
    /\ lastOp.sent = InternalError
    /\ ~lastOp.ok
    /\ socket \in srvBound

\* C5 (as claimed): a send_request that hits the receive deadline closes
\* the holder's socket, puts a new one in the holder and returns
\* (False, "timeout").
C5_TimeoutReturnsTimeout ==
    ret.why = "deadline" =>
        /\ ret.ok = FALSE
        /\ ret.err = <<"timeout">>
        /\ ret.sock \notin cliOpen
        /\ holder # ret.sock
        /\ holder \in cliOpen

\* C6: when the reply text is not JSON, send_request returns
\* (False, "json_error: <detail>") and holder.socket is the socket the call
\* started with, still open, the only open one, and ready to send.
C6_JsonErrorKeepsSocket ==
    ret.why = "reply" /\ ret.frame.enc = "text" /\ cpc = "idle" =>
        /\ ret.ok = FALSE
        /\ Len(ret.err) = 2 /\ ret.err[1] = "json_error: "
        /\ holder = ret.sock
        /\ hist[ret.call].sock = holder
        /\ cliOpen = {holder}
        /\ reqState = READY_TO_SEND

\* C6 witness: a call has returned json_error.
C6_Witness ==
    /\ cpc = "idle"
    /\ ret.why = "reply"
    /\ ret.frame.enc = "text"
    /\ hist[ret.call].outcome = "json_error"

\* C7: the socket of a timed-out call is closed and no later call uses it;
\* every reply a call consumes answers that call's own request, and a call
\* that returns (True, r) returns the server's response to its own payload.
C7_NoDesyncAfterTimeout ==
    /\ \A k \in 1..Len(hist) :
          hist[k].outcome = "timeout" =>
              /\ hist[k].sock \notin cliOpen
              /\ holder > hist[k].sock
              /\ k < Len(hist) => hist[k + 1].sock > hist[k].sock
    /\ ret.why = "reply" => ret.rid = ret.call /\ hist[ret.call].sock = ret.sock
    /\ ret.ok => ret.resp = ServerAnswer(ret.payload)

\* C7 witness: the first call timed out, the server's late reply to it was
\* dropped, and the second call returned the server's answer.
C7_Witness ==
    /\ Len(hist) >= 2
    /\ hist[1].outcome = "timeout"
    /\ dropped >= 1
    /\ ret.call = 2
    /\ ret.ok

\* C8 (as claimed): every valid request envelope whose version is not 0
\* gets a 4xx response.
C8_NonZeroVersionIs4xx ==
    dpc = "done" /\ ValidEnvelope(dreq) /\ dreq.f["version"].n # 0 =>
        ~dres.raised /\ Is4xx(dres.response.status_code)

\* The token that decides allow_break: the last --allow-break= token.
AllowBreakResolves(toks) ==
    LET at == {i \in 1..Len(toks) : StartsWith(toks[i], PAllowBreak)}
        last == CHOOSE i \in at : \A j \in at : j <= i
    IN  at = {} \/
        Lower(SubSeq(toks[last], Len(PAllowBreak) + 1, Len(toks[last]))) = STrue

\* C9: a notice request with well-typed args gets 400 "Missing required
\* parameter 'title'" when parse_args resolves an empty title; otherwise
\* 200 when there is no --allow-break= token or the last one's value is
\* "true" ignoring case, and 202 for any other value.
C9_NoticeStatus ==
    /\ dpc = "done"
    /\ dreq.t = "obj"
    /\ "command" \in DOMAIN dreq.f
    /\ EqStr(dreq.f["command"], SNotice)
    /\ WellTypedArgs(dreq.f)
    => /\ ~dres.raised
       /\ IF parse_args(GetArgs(dreq)).params.title = <<>>
          THEN dres.response = Response(400, "Missing required parameter 'title'")
          ELSE /\ dres.response.message = "Notice sent successfully"
               /\ dres.response.status_code =
                     IF AllowBreakResolves(ArgTokens(dreq.f)) THEN 200 ELSE 202

\* C9 witness: a titled notice whose --allow-break= value is "True" got 200.
C9_Witness ==
    /\ dpc = "done"
    /\ dreq.t = "obj"
    /\ "command" \in DOMAIN dreq.f
    /\ EqStr(dreq.f["command"], SNotice)
    /\ WellTypedArgs(dreq.f)
    /\ ArgTokens(dreq.f) = <<<<"T">>, PAllowBreak \o <<"T","r","u","e">> >>
    /\ dres.response.status_code = 200

\* C10 (as claimed): every valid version-0 request whose command is time or
\* get_lesson gets status 200.
C10_TimeAndLessonSucceed ==
    /\ dpc = "done"
    /\ ValidEnvelope(dreq)
    /\ dreq.f["version"].n = 0
    /\ dreq.f["command"].chars \in {STime, SGetLesson}
    => ~dres.raised /\ dres.response.status_code = 200

\* C11 (as claimed): a version-0 request whose command is a string other
\* than ping, notice, time and get_lesson gets {404, "Command not found"},
\* and a request with one of those four commands never gets 404.
C11_UnknownIs404KnownNever ==
    /\ dpc = "done"
    /\ dreq.t = "obj"
    /\ "command" \in DOMAIN dreq.f
    /\ dreq.f["command"].t = "str"
    => /\ /\ dreq.f["command"].chars \notin KnownCommands
          /\ "version" \in DOMAIN dreq.f
          /\ dreq.f["version"] = JInt(0)
          => dres = Returns(Response(404, "Command not found"))
       /\ dreq.f["command"].chars \in KnownCommands
          => dres.raised \/ dres.response.status_code # 404

\* A decoded value with no command key: an object without that member, or
\* a value that is not an object.
HasNoCommandKey(v) == v.t = "obj" => "command" \notin DOMAIN v.f

\* C12 (as claimed): every decoded request without a command key, objects
\* and other JSON values alike, gets {400, "Missing or invalid 'command'
\* parameter"}.
C12_MissingCommandIs400 ==
    dpc = "done" /\ HasNoCommandKey(dreq) =>
        dres = Returns(Response(400, "Missing or invalid 'command' parameter"))

Parsed == ppc \in {"parsed", "serialized", "reparsed"}

\* C16: the parameters parse_args resolves survive send_notice's
\* serialization: parsing the args list built from them yields the same
\* title, context, allow_break, mask_duration and overlay_duration.
C16_ReparseIsStable ==
    ppc = "reparsed" => ~pout2.raised /\ pout2.params = pout.params

\* A round trip of a list that is not in send_notice's form, with a context
\* and a fractional duration to carry over.
C16_Witness ==
    /\ ppc = "reparsed"
    /\ pser # pin
    /\ pout.params.context # <<>>
    /\ pout.params.overlay_duration = Float(15, 10)
    /\ pout2.params.overlay_duration = Float(15, 10)

\* Positions of the tokens that do not start with "--".
NonFlagIdx(toks) == {i \in 1..Len(toks) : ~StartsWith(toks[i], DashDash)}
MinOf(S) == CHOOSE k \in S : \A j \in S : k <= j
MaxOf(S) == CHOOSE k \in S : \A j \in S : k >= j

\* C17 (as claimed): the resolved title is the first token that does not
\* start with "--", the empty string included; later non-flag tokens are
\* ignored.
C17_FirstNonFlagIsTitle ==
    Parsed /\ NonFlagIdx(pin) # {} =>
        pout.params.title = pin[MinOf(NonFlagIdx(pin))]

\* Duration values that are not numbers.
NotANumber == {<<"a","b","c">>, <<"x">>, <<>>}
BadMask(tok) == \E v \in NotANumber : tok = PMaskDuration \o v
BadOverlay(tok) == \E v \in NotANumber : tok = POverlayDuration \o v
BadDuration(tok) == BadMask(tok) \/ BadOverlay(tok)
RemoveAt(toks, i) == SubSeq(toks, 1, i - 1) \o SubSeq(toks, i + 1, Len(toks))
NoticeStatus(toks) ==
    HandleNotice(Envelope(JInt(0), JStr(SNotice), StrList(toks)))

\* C18: parse_args returns all five parameters for every list of string
\* tokens and never raises; a duration token whose value is not a number
\* changes nothing: the result, and the notice status, are those of the
\* list without the token, and a duration no other token sets keeps its
\* default.
C18_BadDurationIgnored ==
    Parsed =>
        /\ ~pout.raised
        /\ DOMAIN pout.params = DOMAIN NoticeDefaults
        /\ \A i \in 1..Len(pin) : BadDuration(pin[i]) =>
              /\ pout = parse_args(StrList(RemoveAt(pin, i)))
              /\ NoticeStatus(pin) = NoticeStatus(RemoveAt(pin, i))
        /\ (\A i \in 1..Len(pin) :
                StartsWith(pin[i], PMaskDuration) => BadMask(pin[i]))
           => pout.params.mask_duration = Float(30, 10)
        /\ (\A i \in 1..Len(pin) :
                StartsWith(pin[i], POverlayDuration) => BadOverlay(pin[i]))
           => pout.params.overlay_duration = Float(50, 10)

\* A malformed mask duration after a well-formed one, in a titled notice.
C18_Witness ==
    /\ ppc = "parsed"
    /\ Len(pin) = 3
    /\ BadMask(pin[3])
    /\ pout.params.title # <<>>
    /\ pout.params.mask_duration = Float(20, 10)

ContextIdx(toks) == {i \in 1..Len(toks) : StartsWith(toks[i], PContext)}
ContextValue(tok) == SubSeq(tok, Len(PContext) + 1, Len(tok))

\* C19 (as claimed): with more than one --context= token the resolved
\* context is the value of the first one.
C19_FirstContextWins ==
    Parsed /\ Cardinality(ContextIdx(pin)) > 1 =>
        pout.params.context = ContextValue(pin[MinOf(ContextIdx(pin))])

\* C19 (amended): with more than one --context= token the resolved context
\* is the value of the last one; earlier ones have no effect.
C19_LastContextWins ==
    Parsed /\ Cardinality(ContextIdx(pin)) > 1 =>
        pout.params.context = ContextValue(pin[MaxOf(ContextIdx(pin))])

\* Two --context= tokens with different values have been parsed.
C19_Witness ==
    /\ ppc = "parsed"
    /\ Cardinality(ContextIdx(pin)) > 1
    /\ ContextValue(pin[MinOf(ContextIdx(pin))])
           # ContextValue(pin[MaxOf(ContextIdx(pin))])

\* Calls that went out on REQ socket s and have no outcome yet.
InFlightOn(s) ==
    {i \in 1..Len(hist) : hist[i].sock = s /\ hist[i].outcome = "pending"}
\* Requests of REQ socket s queued at the server.
QueuedFrom(s) == {i \in 1..Len(inbox) : inbox[i].conn = s}

\* C20: whenever send_request is about to be called, holder.socket is an
\* open REQ socket with no outstanding request; no send is ever rejected
\* for a request/reply state violation, and no REQ socket ever has more
\* than one request in flight.
C20_SocketReadyAtCallStart ==
    /\ cpc = "idle" => holder \in cliOpen /\ reqState = READY_TO_SEND
    /\ ret.why # "efsm"
    /\ \A i \in 1..Len(hist) : hist[i].outcome # "zmq_error"
    /\ \A s \in 1..holder :
          /\ Cardinality(InFlightOn(s)) <= 1
          /\ Cardinality(QueuedFrom(s)) <= 1

\* A second call has gone out, on the rebuilt socket, after the first ended
\* in a ZMQ error (the receive timeout).
C20_Witness ==
    /\ Len(hist) = 2
    /\ hist[1].outcome = "timeout"
    /\ hist[2].outcome = "pending"
    /\ hist[2].sock # hist[1].sock
    /\ reqState = AWAITING_REPLY

\* The server process has ended.
ServerStopped == spc \notin Running

\* C13 (as claimed): whatever payloads arrive and whatever transport errors
\* occur on receive, send or re-bind, the handler loop keeps running; the
\* server process stops only through the SIGINT/SIGTERM cleanup handler.
C13_OnlySignalsStop == ServerStopped => spc = "exited"

\* C14 (as claimed): on every path by which the server process ends, signal
\* or error, the current REP socket has been closed and the context
\* terminated before the end.
C14_ReleasedOnEveryExit ==
    ServerStopped => socket \notin srvOpen /\ srvOpen = {} /\ ctxTerminated

\* Every send_request call of the run got a reply.
NoTransportFailure == \A i \in 1..Len(hist) : hist[i].outcome = "ok"

\* C15 (as claimed): run_tests against the server with no transport failure
\* ends with no failed test: the requests expected to succeed are counted
\* as successes and those expected to fail as failures.
C15_AllTestsPass ==
    tstate = "summary" /\ NoTransportFailure => failures = <<>>

\* C21: when ctx.term() is called in send_notice, run_request_with_socket
\* or the main block's test branch, every REQ socket ever created for the
\* context is closed, the ones replaced by a timeout rebuild included,
\* whether the calls ended in success, timeout or json_error.
C21_NoSocketOpenAtTerm ==
    cpc = "exited" =>
        /\ termOpen = {}
        /\ \A s \in 1..holder : s \notin cliOpen

\* The main block has reached ctx.term() after a run in which one call
\* timed out (socket replaced) and another ended in json_error.
C21_Witness ==
    /\ cpc = "exited"
    /\ tstate = "summary"
    /\ holder > 1
    /\ \E i \in 1..Len(hist) : hist[i].outcome = "timeout"
    /\ \E i \in 1..Len(hist) : hist[i].outcome = "json_error"

=============================================================================
